---- MODULE Spec2Model ----
(***************************************************************************)
(* State-machine model of the 3D file browser: the scroll-position driven  *)
(* navigation (FileBrowser3D.navigateCards, InputHandlers touch / click    *)
(* handlers), the gsap tweens that write scrollPosition, and the folder    *)
(* drill-down / back navigation with its navigation stack                  *)
(* (FileBrowser3D.onCardClick, navigateToFolder, navigateBack,             *)
(* AnimationManager.executeTransition, loadRealFileSystem).                *)
(*                                                                         *)
(* Scroll positions are real numbers in the code; here they are integers   *)
(* counted in 1/UNIT of a card, so card index i is the position i * UNIT.  *)
(***************************************************************************)
EXTENDS Integers, Sequences, FiniteSets, TLC

VARIABLES
    currentDirectory,   \* FileBrowser3D.currentDirectory : FileItem[]
    cards,              \* FileBrowser3D.cards (one card per entry, by index)
    navigationStack,    \* FileBrowser3D.navigationStack : FileItem[][]
    scrollPosition,     \* FileBrowser3D.scrollPosition, in 1/UNIT cards
    isAnimating,        \* FileBrowser3D.isAnimating
    ih_isAnimating,     \* InputHandlers.isAnimating
    activeAnimations,   \* InputHandlers.activeAnimations (tween ids)
    globalTimeline,     \* gsap's live scrollPosition tweens, creation order
    currentTransition,  \* AnimationManager.currentTransition + awaiting caller
    touch,              \* closure variables of setupTouchNavigation
    commands,           \* number of input events handled so far
    note,               \* history: what the last command / hand-back was
    hist,               \* history: listing and stack at each open drill-down
    currentZoom,        \* ZoomControls.currentZoom, in hundredths
    zoomTweens,         \* gsap's live currentZoom tweens, creation order
    pinch,              \* closure variables of setupPinchZoom
    wheel,              \* Date.now() at the last wheel event, lastInputTime
    reader,             \* ServerFileSystemReader.currentPath, and the last call
    source              \* the last call of the Directory Source and its outcome

\* the state of FileBrowser3D, InputHandlers and AnimationManager
browserVars == <<currentDirectory, cards, navigationStack, scrollPosition,
                 isAnimating, ih_isAnimating, activeAnimations,
                 globalTimeline, currentTransition, touch, note, hist>>

\* the state of ZoomControls and of the pinch handlers
zoomVars == <<currentZoom, zoomTweens, pinch>>

\* the state the browser's handlers never touch
elsewhere == <<zoomVars, source, wheel, reader>>

\* the state the zoom handlers never touch
besidesZoom == <<browserVars, source, wheel, reader>>

vars == <<browserVars, commands, elsewhere>>

----------------------------------------------------------------------------
(* Bounds of the model *)

UNIT == 2               \* grid points per card of a scroll position
MaxCommands == 3        \* input events handled in one explored behaviour
MaxZoomTweens == 2      \* zoom tweens in flight at the same time
MaxZoomCommands == 3    \* zoom inputs handled in one explored behaviour
MaxEntries == 3         \* entries of a raw directory

\* currentTransition === undefined
None == [type |-> "none"]

----------------------------------------------------------------------------
(* Listings *)

Entry(n, t, p) == [name |-> n, type |-> t, path |-> p]

createFallbackData ==
    << Entry("Documents", "folder", "/Documents"),
       Entry("Projects", "folder", "/Projects"),
       Entry("Images", "folder", "/Images"),
       Entry("readme.txt", "file", "/readme.txt"),
       Entry("config.json", "file", "/config.json"),
       Entry("Music", "folder", "/Music"),
       Entry("Videos", "folder", "/Videos"),
       Entry("script.js", "file", "/script.js") >>

\* String.prototype.toLowerCase on the folder names that occur
toLowerCase(s) ==
    CASE s = "Documents" -> "documents"
      [] s = "Projects" -> "projects"
      [] s = "Images" -> "images"
      [] s = "Music" -> "music"
      [] s = "Videos" -> "videos"
      [] s = "Presentations" -> "presentations"
      [] s = "WebApp" -> "webapp"
      [] s = "MobileApp" -> "mobileapp"
      [] s = "Screenshots" -> "screenshots"
      [] OTHER -> s

\* the path prefix `/${folderName}` of the default mock contents
Slash(folderName) ==
    CASE folderName = "Music" -> "/Music"
      [] folderName = "Videos" -> "/Videos"
      [] folderName = "Presentations" -> "/Presentations"
      [] folderName = "WebApp" -> "/WebApp"
      [] folderName = "MobileApp" -> "/MobileApp"
      [] folderName = "Screenshots" -> "/Screenshots"
      [] folderName = "subfolder" -> "/subfolder"
      [] folderName = "src" -> "/src"
      [] OTHER -> "/"

BackEntry == Entry("..", "folder", "../")

createMockFolderContents(folderName) ==
    <<BackEntry>> \o
    CASE toLowerCase(folderName) = "documents" ->
           << Entry("Report.pdf", "file", "/Documents/Report.pdf"),
              Entry("Notes.txt", "file", "/Documents/Notes.txt"),
              Entry("Presentations", "folder", "/Documents/Presentations") >>
      [] toLowerCase(folderName) = "projects" ->
           << Entry("WebApp", "folder", "/Projects/WebApp"),
              Entry("MobileApp", "folder", "/Projects/MobileApp"),
              Entry("README.md", "file", "/Projects/README.md") >>
      [] toLowerCase(folderName) = "images" ->
           << Entry("vacation.jpg", "file", "/Images/vacation.jpg"),
              Entry("family.png", "file", "/Images/family.png"),
              Entry("Screenshots", "folder", "/Images/Screenshots") >>
      [] OTHER ->
           << Entry("file1.txt", "file", Slash(folderName) \o "/file1.txt"),
              Entry("file2.txt", "file", Slash(folderName) \o "/file2.txt"),
              Entry("subfolder", "folder", Slash(folderName) \o "/subfolder") >>

\* results FileSystemReader.readDirectory can resolve to: sorted listings
\* without hidden entries, or [] on error / cancel
ReadDirectoryResults ==
    { << >>,
      << Entry("notes.txt", "file", "home/notes.txt") >>,
      << Entry("src", "folder", "home/src"),
         Entry("README.md", "file", "home/README.md") >> }

\* Lengths, coordinates and scales are real numbers in the code; here they
\* are integers counted in 1/(1000 * UNIT), so the scale 1.0 is 1000 * UNIT.
\* The static readonly constants are in thousandths.
CARD_SPACING == 1500
DIAGONAL_X_RATIO == -500
DIAGONAL_Y_RATIO == -500
DIAGONAL_Z_RATIO == 100

\* CardGeometry.createCard: a card at its place in the diagonal row, flat,
\* with the default scale of a THREE.Group
createCard(fileItem, index) ==
    LET diagonalOffset == index * UNIT * CARD_SPACING IN
    [index |-> index, label |-> fileItem.name,
     position |-> [x |-> (diagonalOffset * DIAGONAL_X_RATIO) \div 1000,
                   y |-> (-diagonalOffset * DIAGONAL_Y_RATIO) \div 1000,
                   z |-> (-diagonalOffset * DIAGONAL_Z_RATIO) \div 1000],
     scale |-> 1000 * UNIT]

CardsFor(fileData) ==
    [i \in 1..Len(fileData) |-> createCard(fileData[i], i - 1)]

\* the card objects of a list, whatever their transforms
Objects(cs) ==
    [k \in 1..Len(cs) |-> [index |-> cs[k].index, label |-> cs[k].label]]

----------------------------------------------------------------------------
(* Arithmetic of the scroll position *)

Max(a, b) == IF a > b THEN a ELSE b
Min(a, b) == IF a < b THEN a ELSE b

\* Math.max(0, Math.min(this.cards.length - 1, x)), in 1/UNIT cards
Clamp(x) == Max(0, Min((Len(cards) - 1) * UNIT, x))

Round_down(x) == x \div UNIT

\* Math.round of a non-negative position: nearest card index, halves go up
Round(x) == (2 * x + UNIT) \div (2 * UNIT)

----------------------------------------------------------------------------
(* The card layout: scroll position -> card transform *)

Abs(x) == IF x < 0 THEN -x ELSE x

\* Math.abs(index - this.scrollPosition), in 1/UNIT cards
distanceFromCenter(index, s) == Abs(index * UNIT - s)

scale_unbounded(index, s) ==
    1000 * UNIT + 150 * (UNIT - distanceFromCenter(index, s))

\* const scale = 1.0 + 0.15 * Math.max(0, 1 - distanceFromCenter)
scale(index, s) ==
    1000 * UNIT + 150 * Max(0, UNIT - distanceFromCenter(index, s))

\* const elevation = 0.6 * Math.max(0, 1 - distanceFromCenter)
elevation(index, s) == 600 * Max(0, UNIT - distanceFromCenter(index, s))

centeredPosition_flat(index, s) ==
    [x |-> ((index * UNIT - s) * CARD_SPACING * DIAGONAL_X_RATIO) \div 1000,
     y |-> (-(index * UNIT - s) * CARD_SPACING * DIAGONAL_Y_RATIO) \div 1000,
     z |-> (-(index * UNIT - s) * CARD_SPACING * DIAGONAL_Z_RATIO) \div 1000]

\* const centeredPosition of updateCardPositions
centeredPosition(index, s) ==
    [x |-> ((index * UNIT - s) * CARD_SPACING * DIAGONAL_X_RATIO) \div 1000,
     y |-> (-(index * UNIT - s) * CARD_SPACING * DIAGONAL_Y_RATIO) \div 1000
             + elevation(index, s),
     z |-> (-(index * UNIT - s) * CARD_SPACING * DIAGONAL_Z_RATIO) \div 1000]

\* const centeredPosition of updateCardPositionsImmediate, which computes
\* its own distance, elevation and position
centeredPositionImmediate(index, s) ==
    LET distance == Abs(index * UNIT - s)
        raised == 600 * Max(0, UNIT - distance)
    IN [x |-> ((index * UNIT - s) * CARD_SPACING * DIAGONAL_X_RATIO)
                 \div 1000,
        y |-> (-(index * UNIT - s) * CARD_SPACING * DIAGONAL_Y_RATIO)
                 \div 1000 + raised,
        z |-> (-(index * UNIT - s) * CARD_SPACING * DIAGONAL_Z_RATIO)
                 \div 1000]

\* DropAndFanTransition.calculateDiagonalPositions, with its own copies of
\* the four constants
calculateDiagonalPositions(cardCount, s) ==
    [k \in 1..cardCount |->
       LET i == k - 1
           raised == 600 * Max(0, UNIT - Abs(i * UNIT - s))
       IN [x |-> ((i * UNIT - s) * 1500 * (-500)) \div 1000,
           y |-> (-(i * UNIT - s) * 1500 * (-500)) \div 1000 + raised,
           z |-> (-(i * UNIT - s) * 1500 * 100) \div 1000]]

\* updateCardPositions: every card gets a tween of its position and a tween
\* of its scale towards the layout of the scroll position s, 0.1 s long.
\* A card's position and scale are the values its tweens end at: the tweens
\* created last render last in every frame and complete last.
updateCardPositions(cs, s) ==
    [k \in 1..Len(cs) |->
       [cs[k] EXCEPT !.position = centeredPosition(k - 1, s),
                     !.scale = scale(k - 1, s)]]

\* updateCardPositionsImmediate: position.set and scale.set
updateCardPositionsImmediate(cs, s) ==
    [k \in 1..Len(cs) |->
       [cs[k] EXCEPT !.position = centeredPositionImmediate(k - 1, s),
                     !.scale = scale(k - 1, s)]]

----------------------------------------------------------------------------
(* gsap: tweens that write scrollPosition *)

\* A tween is [id, init, cur, to, early].  id "fb" is the tween navigateCards
\* puts on the FileBrowser3D object itself, id "ih" the tween InputHandlers
\* puts on its animationObj.  init says whether the tween has read its start
\* value.  early says that the tween was already running when the drill-down
\* transition in flight started.
Tween(id, init, cur, to) ==
    [id |-> id, init |-> init, cur |-> cur, to |-> to, early |-> FALSE]

\* The ticker drives the tweens (0.1 s to 1.0 s) and the transition timeline
\* (1.2 s) with one clock: a tween that runs when the transition starts has
\* completed by the time the transition resolves.
StartedEarlier(tl) == [i \in 1..Len(tl) |-> [tl[i] EXCEPT !.early = TRUE]]

NoEarlyTween(tl) == \A i \in 1..Len(tl) : ~tl[i].early

InSeq(x, s) == \E i \in 1..Len(s) : s[i] = x

\* gsap.killTweensOf(this): the tweens whose target is the FileBrowser3D
killTweensOf(tl) == SelectSeq(tl, LAMBDA t : t.id # "fb")

KillActive_all(tl) == << >>

\* tween.kill() for every tween of activeAnimations
KillActive(tl) == SelectSeq(tl, LAMBDA t : ~InSeq(t.id, activeAnimations))

\* ease 'power2.out': a frame covers a share of the distance that is left
\* (here half of it, rounded up to the grid), so a tween decelerates
StepToward(from, to) ==
    IF from < to THEN to - ((to - from) \div 2)
    ELSE IF from > to THEN to + ((from - to) \div 2) ELSE to

\* a tween that is dropped on its last frame without rendering its end value
RenderTween_noFinalFrame(t, sp, ch) ==
    LET start == IF t.init THEN t.cur ELSE sp
        v == StepToward(start, t.to)
    IN [tween |-> [t EXCEPT !.init = TRUE, !.cur = v], value |-> v,
        complete |-> (ch = "finish" \/ v = t.to)]

\* One frame of one tween.  A tween that has not rendered yet reads its start
\* value from its target (for "fb" that is the current scrollPosition); the
\* frame then moves the value towards the end value, or reaches it.
RenderTween(t, sp, ch) ==
    LET start == IF t.init THEN t.cur ELSE sp
        v == IF ch = "finish" THEN t.to ELSE StepToward(start, t.to)
    IN [tween |-> [t EXCEPT !.init = TRUE, !.cur = v], value |-> v,
        complete |-> (v = t.to)]

\* One frame of the ticker: every live tween renders in creation order and
\* writes scrollPosition; a tween that reaches its end value completes.
RECURSIVE Render(_, _, _)
Render(tl, sp, c) ==
    IF tl = << >> THEN [sp |-> sp, live |-> << >>, done |-> {}]
    ELSE LET r == RenderTween(Head(tl), sp, Head(c))
             rest == Render(Tail(tl), r.value, Tail(c))
         IN [sp |-> rest.sp,
             live |-> IF r.complete THEN rest.live
                      ELSE <<r.tween>> \o rest.live,
             done |-> IF r.complete THEN {Head(tl).id} \cup rest.done
                      ELSE rest.done]

----------------------------------------------------------------------------
(* Initial state: after the constructor and init() *)

\* the initial ZoomControls.currentZoom, in hundredths
INITIAL_ZOOM == 110

\* InputHandlers.INPUT_DEBOUNCE, in ms.  Date.now() counts from 1970, so at
\* the first wheel event the initial lastInputTime = 0 lies further back.
INPUT_DEBOUNCE == 50

Init ==
    /\ currentDirectory = createFallbackData
    /\ cards = updateCardPositions(CardsFor(createFallbackData), 0)
    /\ navigationStack = << >>
    /\ scrollPosition = 0
    /\ isAnimating = FALSE
    /\ ih_isAnimating = FALSE
    /\ activeAnimations = << >>
    /\ globalTimeline = << >>
    /\ currentTransition = None
    /\ touch = [isDragging |-> FALSE, startScrollPosition |-> 0,
                lastTouchPosition |-> 0, velocity |-> 0, hasMoved |-> FALSE]
    /\ commands = 0
    /\ note = "idle"
    /\ hist = << >>
    /\ currentZoom = INITIAL_ZOOM
    /\ zoomTweens = << >>
    /\ pinch = [initialDistance |-> 0, initialZoom |-> 100]
    /\ wheel = [now |-> 2 * INPUT_DEBOUNCE, lastInputTime |-> 0]
    /\ reader = [currentPath |-> << >>, entered |-> << >>, op |-> "none"]
    /\ source = [op |-> "none"]

----------------------------------------------------------------------------
(* Input events are counted, and at most MaxCommands of them are explored *)

Count == commands < MaxCommands /\ commands' = commands + 1

----------------------------------------------------------------------------
(* A frame of the animation ticker *)

Tick ==
    /\ globalTimeline # << >>
    /\ \E c \in [1..Len(globalTimeline) -> {"step", "finish"}] :
         \E r \in {Render(globalTimeline, scrollPosition, c)} :
         /\ scrollPosition' = r.sp
         /\ globalTimeline' = r.live
         /\ isAnimating' = IF "fb" \in r.done THEN FALSE ELSE isAnimating
         /\ ih_isAnimating' = IF "ih" \in r.done THEN FALSE
                              ELSE ih_isAnimating
         /\ activeAnimations' =
                SelectSeq(activeAnimations, LAMBDA id : id \notin r.done)
         \* the onUpdate of every scroll tween calls updateCardPositions
         /\ cards' = updateCardPositions(cards, r.sp)
    /\ UNCHANGED <<currentDirectory, navigationStack,
                   currentTransition, touch, commands, note, hist>>
    /\ UNCHANGED elsewhere

----------------------------------------------------------------------------
(* FileBrowser3D.navigateCards *)

navigateCardsBlocked_ownFlag == isAnimating

\* the guard of navigateCards
navigateCardsBlocked == isAnimating \/ ih_isAnimating

navigateCards(direction) ==
    IF navigateCardsBlocked
    THEN UNCHANGED <<scrollPosition, isAnimating, ih_isAnimating,
                     activeAnimations, globalTimeline>>
    ELSE LET tl == KillActive(killTweensOf(globalTimeline))
             newScrollPosition == Clamp(scrollPosition + direction * UNIT)
         IN /\ activeAnimations' = << >>
            /\ ih_isAnimating' = FALSE
            /\ scrollPosition' = scrollPosition
            /\ IF newScrollPosition = scrollPosition
               THEN /\ isAnimating' = isAnimating
                    /\ globalTimeline' = tl
               ELSE /\ isAnimating' = TRUE
                    /\ globalTimeline' =
                         Append(tl, Tween("fb", FALSE, scrollPosition,
                                          newScrollPosition))

\* advance(direction): a wheel tick or any other caller of navigateCards
Advance(direction) ==
    /\ Count
    /\ navigateCards(direction)
    /\ note' = IF navigateCardsBlocked THEN "blocked"
               ELSE IF Clamp(scrollPosition + direction * UNIT)
                          = scrollPosition
                    THEN "noop" ELSE "accepted"
    /\ UNCHANGED <<currentDirectory, cards, navigationStack,
                   currentTransition, touch, hist>>
    /\ UNCHANGED elsewhere

----------------------------------------------------------------------------
(* InputHandlers: click-to-center and touch drag *)

centerCardBlocked(targetIndex) ==
    ih_isAnimating \/ targetIndex * UNIT = scrollPosition

centerCard(targetIndex) ==
    IF centerCardBlocked(targetIndex)
    THEN UNCHANGED <<ih_isAnimating, activeAnimations, globalTimeline>>
    ELSE /\ ih_isAnimating' = TRUE
         /\ activeAnimations' = <<"ih">>
         /\ globalTimeline' =
              Append(KillActive(globalTimeline),
                     Tween("ih", TRUE, scrollPosition, targetIndex * UNIT))

\* handleCardClick hitting the card with the given index
CenterOn(targetIndex) ==
    /\ Count
    /\ targetIndex \in 0..(Len(cards) - 1)
    /\ centerCard(targetIndex)
    /\ note' = "idle"
    /\ UNCHANGED <<currentDirectory, cards, navigationStack, scrollPosition,
                   isAnimating, currentTransition, touch, hist>>
    /\ UNCHANGED elsewhere

TouchStart ==
    /\ Count
    /\ ~touch.isDragging
    \* this.cancelAnimations()
    /\ globalTimeline' = KillActive(globalTimeline)
    /\ activeAnimations' = << >>
    /\ ih_isAnimating' = FALSE
    /\ touch' = [isDragging |-> TRUE,
                 startScrollPosition |-> scrollPosition,
                 lastTouchPosition |-> scrollPosition,
                 velocity |-> 0, hasMoved |-> FALSE]
    /\ note' = "idle"
    /\ UNCHANGED <<currentDirectory, cards, navigationStack, scrollPosition,
                   isAnimating, currentTransition, hist>>
    /\ UNCHANGED elsewhere

\* drag samples: the signed scroll delta of the finger from its start point
\* (0: within the 15 px threshold), and the time since the last sample in ms
DragDeltas == {-1, 0, 3}
TimeDeltas == {0, 100}
MOMENTUM == 300

TouchMove(scrollDelta, timeDelta) ==
    /\ Count
    /\ touch.isDragging
    /\ LET hasMoved == touch.hasMoved \/ scrollDelta # 0
           newScrollPosition == Clamp(touch.startScrollPosition + scrollDelta)
       IN IF ~hasMoved
          THEN UNCHANGED <<touch, scrollPosition, cards>>
          ELSE /\ scrollPosition' = newScrollPosition
               /\ cards' = updateCardPositionsImmediate(cards,
                                                        newScrollPosition)
               /\ touch' =
                    IF timeDelta > 0
                    THEN [touch EXCEPT
                            !.hasMoved = TRUE,
                            !.velocity =
                               ((newScrollPosition - touch.lastTouchPosition)
                                 * MOMENTUM) \div timeDelta,
                            !.lastTouchPosition = newScrollPosition]
                    ELSE [touch EXCEPT !.hasMoved = TRUE]
    /\ note' = "idle"
    /\ UNCHANGED <<currentDirectory, navigationStack, isAnimating,
                   ih_isAnimating, activeAnimations, globalTimeline,
                   currentTransition, hist>>
    /\ UNCHANGED elsewhere

\* the momentum animation of touchend
snappedPosition == Round(Clamp(scrollPosition + touch.velocity))

releaseDrag ==
    /\ ih_isAnimating' = TRUE
    /\ activeAnimations' = <<"ih">>
    /\ globalTimeline' =
         Append(KillActive(globalTimeline),
                Tween("ih", TRUE, scrollPosition, snappedPosition * UNIT))

\* quick: the touch lasted less than 300 ms; hit: index of the card under a
\* tap, or -1 when the tap hits no card (or is debounced)
TouchEnd(quick, hit) ==
    /\ Count
    /\ touch.isDragging
    /\ hit \in -1..(Len(cards) - 1)
    /\ touch' = [touch EXCEPT !.isDragging = FALSE]
    /\ IF ~touch.hasMoved /\ quick
       THEN IF hit >= 0 THEN centerCard(hit)
            ELSE UNCHANGED <<ih_isAnimating, activeAnimations, globalTimeline>>
       ELSE IF touch.hasMoved THEN releaseDrag
            ELSE UNCHANGED <<ih_isAnimating, activeAnimations, globalTimeline>>
    /\ note' = "idle"
    /\ UNCHANGED <<currentDirectory, cards, navigationStack, scrollPosition,
                   isAnimating, currentTransition, hist>>
    /\ UNCHANGED elsewhere

----------------------------------------------------------------------------
(* Drill-down and back navigation *)

\* AnimationManager.isAnimating()
AnimationManager_isAnimating == currentTransition # None

\* FileBrowser3D.createCardsFromData: the new cards and the scroll reset
createCardsFromData(fileData) ==
    /\ cards' = updateCardPositions(CardsFor(fileData), 0)
    /\ scrollPosition' = 0

navigateBackBlocked == navigationStack = << >> \/ AnimationManager_isAnimating

previousDirectory_bottom == navigationStack[1]

\* what navigateBack pops: the top of the stack
previousDirectory == navigationStack[Len(navigationStack)]

navigateBack ==
    IF navigateBackBlocked
    THEN /\ note' = IF AnimationManager_isAnimating THEN "rejected" ELSE "idle"
         /\ UNCHANGED <<currentDirectory, cards, navigationStack,
                        scrollPosition, currentTransition, hist>>
    ELSE /\ navigationStack' =
              SubSeq(navigationStack, 1, Len(navigationStack) - 1)
         /\ createCardsFromData(previousDirectory)
         /\ currentDirectory' = previousDirectory
         /\ hist' = SubSeq(hist, 1, Len(hist) - 1)
         /\ note' = "back"
         /\ UNCHANGED currentTransition

\* DropAndFanTransition: the timeline of execute, in hundredths of a second.
\* Child tween k of a staggered group starts k staggers after the group.
DURATION == 120
DROP_DISTANCE == 3000
DropDuration == 60
DropStagger == 5
ShrinkStart == 20
ShrinkDuration == 40
ShrinkStagger == 3
FanStart == 60
FanDuration == 60
FanStagger == 8
GrowStart == 70
GrowDuration == 50
GrowStagger == 6

TweenEnd(start, duration, stagger, k) == start + stagger * k + duration

DropEnd(k) == TweenEnd(0, DropDuration, DropStagger, k)
ShrinkEnd(k) == TweenEnd(ShrinkStart, ShrinkDuration, ShrinkStagger, k)
FanEnd(k) == TweenEnd(FanStart, FanDuration, FanStagger, k)
GrowEnd(k) == TweenEnd(GrowStart, GrowDuration, GrowStagger, k)

\* the end of the timeline: the end of its last child tween
totalDuration(currentCount, newCount) ==
    Max(Max(DropEnd(currentCount - 1), ShrinkEnd(currentCount - 1)),
        Max(FanEnd(newCount - 1), GrowEnd(newCount - 1)))

\* DropAndFanTransition.execute: without a selected card it returns at once,
\* with no tween and no card added to the scene; otherwise it builds the
\* timeline, adds the new cards to the scene and returns finishAnimation()
execute(currentCards, newCards, selectedCardIndex) ==
    IF selectedCardIndex + 1 \notin DOMAIN currentCards
    THEN [time |-> 0, duration |-> 0, newInScene |-> FALSE,
          originalPositions |-> << >>, finalPositions |-> << >>]
    ELSE [time |-> 0,
          duration |-> totalDuration(Len(currentCards), Len(newCards)),
          newInScene |-> TRUE,
          originalPositions |->
             [k \in 1..Len(currentCards) |-> currentCards[k].position],
          finalPositions |->
             calculateDiagonalPositions(Len(newCards), 0)]

\* execute's forEach over the new cards: stacked at the selected card's
\* position with scale 0 (nothing happens without a selected card)
stackNewCards(currentCards, newCards, selectedCardIndex) ==
    IF selectedCardIndex + 1 \notin DOMAIN currentCards
    THEN newCards
    ELSE [k \in 1..Len(newCards) |->
            [newCards[k] EXCEPT
               !.position = currentCards[selectedCardIndex + 1].position,
               !.scale = 0]]

\* a child tween whose end lies in the frame from time `from` to time `to`
\* writes its end value in that frame
EndsIn(end, from, to) == from < end /\ end <= to

\* phase 1 of the timeline on the current cards: drop and shrink
dropAndShrink(currentCards, timeline, to) ==
    [k \in 1..Len(currentCards) |->
       [currentCards[k] EXCEPT
          !.position.y =
             IF EndsIn(DropEnd(k - 1), timeline.time, to)
             THEN timeline.originalPositions[k].y - DROP_DISTANCE * UNIT
             ELSE @,
          !.scale =
             IF EndsIn(ShrinkEnd(k - 1), timeline.time, to) THEN 0 ELSE @]]

\* phase 3 of the timeline on the new cards: fan out and grow to scale 1
fanAndGrow(newCards, timeline, to) ==
    [k \in 1..Len(newCards) |->
       [newCards[k] EXCEPT
          !.position =
             IF EndsIn(FanEnd(k - 1), timeline.time, to)
             THEN timeline.finalPositions[k] ELSE @,
          !.scale =
             IF EndsIn(GrowEnd(k - 1), timeline.time, to)
             THEN 1000 * UNIT ELSE @]]

finishAnimation_nominal(transition) == transition.time >= DURATION

\* BaseTransition.finishAnimation: the promise resolves when the timeline
\* has played to its end
finishAnimation(transition) == transition.time >= transition.duration

savedDirectory_sliced == SubSeq(currentDirectory, 2, Len(currentDirectory))

\* what navigateToFolder saves: a copy of the live listing
savedDirectory == currentDirectory

\* navigateToFolder up to its await: the push, the new cards, and
\* executeTransition setting currentTransition
navigateToFolder(folder, newContents, selectedCardIndex) ==
    /\ navigationStack' = Append(navigationStack, savedDirectory)
    /\ hist' = Append(hist, [L |-> currentDirectory,
                             stack |-> navigationStack])
    /\ currentTransition' =
         [type |-> "dropAndFan",
          currentCards |-> Objects(cards),
          currentLive |-> TRUE,
          newCards |-> stackNewCards(cards, CardsFor(newContents),
                                     selectedCardIndex),
          newContents |-> newContents,
          selectedFolder |-> folder,
          selectedCardIndex |-> selectedCardIndex,
          timeline |-> execute(cards, CardsFor(newContents),
                               selectedCardIndex)]
    /\ note' = "idle"
    /\ UNCHANGED <<currentDirectory, cards, scrollPosition>>

onCardClickBlocked_never == FALSE

\* the guard of onCardClick
onCardClickBlocked == AnimationManager_isAnimating

onCardClick(cardIndex) ==
    IF onCardClickBlocked
    THEN /\ note' = "rejected"
         /\ UNCHANGED <<currentDirectory, cards, navigationStack,
                        scrollPosition, currentTransition, hist>>
    ELSE IF cardIndex + 1 \notin DOMAIN currentDirectory
    THEN /\ note' = "idle"
         /\ UNCHANGED <<currentDirectory, cards, navigationStack,
                        scrollPosition, currentTransition, hist>>
    ELSE LET selectedItem == currentDirectory[cardIndex + 1] IN
         IF selectedItem.name = ".."
         THEN navigateBack
         ELSE IF selectedItem.type # "folder"
         THEN /\ note' = "idle"
              /\ UNCHANGED <<currentDirectory, cards, navigationStack,
                             scrollPosition, currentTransition, hist>>
         ELSE navigateToFolder(selectedItem,
                               createMockFolderContents(selectedItem.name),
                               cardIndex)

\* activate(index): the pick command
Activate(cardIndex) ==
    /\ Count
    /\ onCardClick(cardIndex)
    /\ globalTimeline' =
         IF currentTransition = None /\ currentTransition' # None
         THEN StartedEarlier(globalTimeline) ELSE globalTimeline
    /\ UNCHANGED <<isAnimating, ih_isAnimating, activeAnimations, touch>>
    /\ UNCHANGED elsewhere

\* the public navigateBack() called directly
NavigateBack ==
    /\ Count
    /\ navigateBack
    /\ UNCHANGED <<isAnimating, ih_isAnimating, activeAnimations,
                   globalTimeline, touch>>
    /\ UNCHANGED elsewhere

\* the points of the timeline a frame is sampled at: the nominal duration
\* and the end of the timeline
Marks(timeline) == {DURATION, timeline.duration}

\* a frame of the ticker plays the transition timeline forward
TransitionFrame ==
    /\ currentTransition # None
    /\ \E t \in Marks(currentTransition.timeline) :
         /\ t > currentTransition.timeline.time
         /\ t <= currentTransition.timeline.duration
         /\ currentTransition' =
              [currentTransition EXCEPT
                 !.timeline.time = t,
                 !.newCards =
                    IF currentTransition.timeline.newInScene
                    THEN fanAndGrow(@, currentTransition.timeline, t)
                    ELSE @]
         /\ cards' =
              IF currentTransition.currentLive
                    /\ currentTransition.timeline.newInScene
              THEN dropAndShrink(cards, currentTransition.timeline, t)
              ELSE cards
    /\ UNCHANGED <<currentDirectory, navigationStack, scrollPosition,
                   isAnimating, ih_isAnimating, activeAnimations,
                   globalTimeline, touch, commands, note, hist>>
    /\ UNCHANGED elsewhere

\* the transition's promise resolves: executeTransition clears
\* currentTransition and navigateToFolder continues after its await
TransitionResolve ==
    /\ currentTransition # None
    /\ finishAnimation(currentTransition.timeline)
    /\ NoEarlyTween(globalTimeline)
    /\ cards' = currentTransition.newCards
    /\ currentDirectory' = currentTransition.newContents
    /\ scrollPosition' = 0
    /\ currentTransition' = None
    /\ note' = "handback"
    /\ UNCHANGED <<navigationStack, isAnimating, ih_isAnimating,
                   activeAnimations, globalTimeline, touch, commands,
                   hist>>
    /\ UNCHANGED elsewhere

\* loadRealFileSystem once readDirectory has resolved to files
LoadRealFileSystem(files) ==
    /\ Count
    /\ IF Len(files) > 0
       THEN /\ currentDirectory' = files
            /\ createCardsFromData(files)
            \* the cards of a transition in flight are no longer this.cards
            /\ currentTransition' =
                 IF currentTransition = None THEN None
                 ELSE [currentTransition EXCEPT !.currentLive = FALSE]
       ELSE UNCHANGED <<currentDirectory, cards, scrollPosition,
                        currentTransition>>
    /\ note' = "idle"
    /\ UNCHANGED <<navigationStack, isAnimating, ih_isAnimating,
                   activeAnimations, globalTimeline, touch, hist>>
    /\ UNCHANGED elsewhere

----------------------------------------------------------------------------
(* ZoomControls, and the zoom inputs of InputHandlers.  Zoom values are in   *)
(* hundredths; a tween of currentZoom renders like a tween of               *)
(* scrollPosition, and setZoom kills none of the tweens before it.          *)

MIN_ZOOM == 70
MAX_ZOOM == 150
SNAP == 5
KEY_STEP == 10

\* the quotient of a positive distance by an initialDistance of 0
Infinity == 1000 * MAX_ZOOM

CountZoom == commands < MaxZoomCommands /\ commands' = commands + 1

clampZoom_lowerOnly(targetZoom) == Max(MIN_ZOOM, targetZoom)

\* the clamp of setZoom
clampZoom(targetZoom) == Max(MIN_ZOOM, Min(MAX_ZOOM, targetZoom))

\* the snap of setZoom to 1.0
snapZoom(targetZoom) ==
    IF targetZoom - 100 < SNAP /\ 100 - targetZoom < SNAP THEN 100
    ELSE targetZoom

setZoom(targetZoom) ==
    /\ Len(zoomTweens) < MaxZoomTweens
    /\ zoomTweens' =
         Append(zoomTweens,
                Tween("zoom", FALSE, currentZoom,
                      snapZoom(clampZoom(targetZoom))))
    /\ UNCHANGED currentZoom

\* a frame of the ticker renders the zoom tweens
ZoomTick ==
    /\ zoomTweens # << >>
    /\ \E c \in [1..Len(zoomTweens) -> {"step", "finish"}] :
         LET r == Render(zoomTweens, currentZoom, c) IN
         /\ currentZoom' = r.sp
         /\ zoomTweens' = r.live
    /\ UNCHANGED <<pinch, besidesZoom, commands>>

\* keydown of '+' (or '='), '-' and '0'
ZoomKeys == {"+", "-", "0"}

ZoomKey(key) ==
    /\ CountZoom
    /\ setZoom(IF key = "+" THEN currentZoom + KEY_STEP
               ELSE IF key = "-" THEN currentZoom - KEY_STEP
               ELSE 100)
    /\ UNCHANGED <<pinch, besidesZoom>>

\* wheel with the ctrl modifier: zoomDelta = -deltaY * 0.01
WheelDeltas == {-300, 4}

ZoomWheel(deltaY) ==
    /\ CountZoom
    /\ setZoom(currentZoom - deltaY)
    /\ UNCHANGED <<pinch, besidesZoom>>

\* mousedown on the track, or a drag of the slider, at percentage percent
\* of the track height
SliderPercentages == {0, 40}

SliderTo(percentage) ==
    /\ CountZoom
    /\ setZoom(MIN_ZOOM + (percentage * (MAX_ZOOM - MIN_ZOOM)) \div 100)
    /\ UNCHANGED <<pinch, besidesZoom>>

\* distances between the two fingers of a pinch, in px
PinchDistances == {100, 300}

\* touchstart with two touches
PinchStart(distance) ==
    /\ CountZoom
    /\ pinch' = [initialDistance |-> distance, initialZoom |-> currentZoom]
    /\ UNCHANGED <<currentZoom, zoomTweens, besidesZoom>>

\* touchmove with two touches; initialDistance is 0 until the first
\* touchstart that has exactly two touches
PinchMove(currentDistance) ==
    /\ CountZoom
    /\ setZoom(IF pinch.initialDistance = 0 THEN Infinity
               ELSE (pinch.initialZoom * currentDistance)
                       \div pinch.initialDistance)
    /\ UNCHANGED <<pinch, besidesZoom>>

----------------------------------------------------------------------------
(* InputHandlers.setupMouseWheel *)

Sign(x) == IF x > 0 THEN 1 ELSE IF x < 0 THEN -1 ELSE 0

\* the wheel event's deltaX; its deltaY is one of WheelDeltas or 0
WheelDeltaXs == {-5, 0}

\* ms between a wheel event and the wheel event before it
WheelGaps == {10, INPUT_DEBOUNCE}

wheelBlocked_animatingOnly(now) == ih_isAnimating

\* the guard of the navigation branch
wheelBlocked(now) ==
    ih_isAnimating \/ now - wheel.lastInputTime < INPUT_DEBOUNCE

\* -Math.sign of the delta of the axis with the larger absolute delta
wheelDelta(deltaX, deltaY) ==
    IF Abs(deltaX) > Abs(deltaY) THEN -Sign(deltaX) ELSE -Sign(deltaY)

\* a wheel event, gap ms after the wheel event before it
Wheel(ctrlKey, deltaX, deltaY, gap) ==
    /\ Count
    /\ LET now == wheel.now + gap IN
       IF ctrlKey
       THEN /\ setZoom(currentZoom - deltaY)
            /\ wheel' = [wheel EXCEPT !.now = now]
            /\ note' = "zoom"
            /\ UNCHANGED <<scrollPosition, isAnimating, ih_isAnimating,
                           activeAnimations, globalTimeline>>
       ELSE IF wheelBlocked(now)
       THEN /\ wheel' = [wheel EXCEPT !.now = now]
            /\ note' = IF ih_isAnimating THEN "blocked" ELSE "debounced"
            /\ UNCHANGED <<scrollPosition, isAnimating, ih_isAnimating,
                           activeAnimations, globalTimeline, currentZoom,
                           zoomTweens>>
       ELSE /\ wheel' = [now |-> now, lastInputTime |-> now]
            /\ note' = "wheel"
            /\ IF wheelDelta(deltaX, deltaY) # 0
               THEN navigateCards(wheelDelta(deltaX, deltaY))
               ELSE UNCHANGED <<scrollPosition, isAnimating, ih_isAnimating,
                                activeAnimations, globalTimeline>>
            /\ UNCHANGED <<currentZoom, zoomTweens>>
    /\ UNCHANGED <<currentDirectory, cards, navigationStack,
                   currentTransition, touch, hist, pinch, source, reader>>

NextZoom ==
    \/ ZoomTick
    \/ \E key \in ZoomKeys : ZoomKey(key)
    \/ \E deltaY \in WheelDeltas : ZoomWheel(deltaY)
    \/ \E percentage \in SliderPercentages : SliderTo(percentage)
    \/ \E distance \in PinchDistances : PinchStart(distance)
    \/ \E currentDistance \in PinchDistances : PinchMove(currentDistance)

SpecZoom == Init /\ [][NextZoom]_vars

----------------------------------------------------------------------------
(* The Directory Source: the /api/fs/list handler of the server,            *)
(* ServerFileSystemReader and FileSystemReader.  A name is a sequence of    *)
(* characters.                                                              *)

Names == { <<".", "g">>, <<"R">>, <<"s">>, <<"S">>, <<"a", "2">>,
           <<"a", "1", "0">> }

\* name.startsWith('.')
startsWithDot(name) == Len(name) > 0 /\ name[1] = "."

Digits == <<"0", "1", "2">>
Letters == <<"a", "g", "r", "s">>
Capitals == <<"A", "G", "R", "S">>

IndexOf(c, seq) == CHOOSE i \in 1..Len(seq) : seq[i] = c
isDigit(c) == InSeq(c, Digits)
isCapital(c) == InSeq(c, Capitals)
digitValue(c) == IndexOf(c, Digits) - 1
letterRank(c) ==
    IF isCapital(c) THEN IndexOf(c, Capitals) ELSE IndexOf(c, Letters)

\* the length of the run of digits a name starts with
RECURSIVE digitRun(_)
digitRun(name) ==
    IF name = << >> \/ ~isDigit(Head(name)) THEN 0
    ELSE 1 + digitRun(Tail(name))

RECURSIVE numberOf(_, _)
numberOf(digits, acc) ==
    IF digits = << >> THEN acc
    ELSE numberOf(Tail(digits), 10 * acc + digitValue(Head(digits)))

\* The primary collation key of localeCompare(.., undefined,
\* {numeric: true}): punctuation before numbers before letters, a run of
\* digits weighs as its number, and a letter weighs the same in both cases.
RECURSIVE primaryKey(_)
primaryKey(name) ==
    IF name = << >> THEN << >>
    ELSE IF isDigit(Head(name))
    THEN LET n == digitRun(name) IN
         <<(<<1, numberOf(SubSeq(name, 1, n), 0)>>)>>
            \o primaryKey(SubSeq(name, n + 1, Len(name)))
    ELSE IF Head(name) = "."
    THEN <<(<<0, 0>>)>> \o primaryKey(Tail(name))
    ELSE <<(<<2, letterRank(Head(name))>>)>> \o primaryKey(Tail(name))

\* the case of each letter, lower case first
RECURSIVE tertiaryKey(_)
tertiaryKey(name) ==
    IF name = << >> THEN << >>
    ELSE <<(<<0, IF isCapital(Head(name)) THEN 1 ELSE 0>>)>>
            \o tertiaryKey(Tail(name))

\* lexicographic comparison of two keys: -1, 0 or 1
RECURSIVE compareKeys(_, _)
compareKeys(k, l) ==
    IF k = << >> THEN (IF l = << >> THEN 0 ELSE -1)
    ELSE IF l = << >> THEN 1
    ELSE IF Head(k)[1] # Head(l)[1]
    THEN (IF Head(k)[1] < Head(l)[1] THEN -1 ELSE 1)
    ELSE IF Head(k)[2] # Head(l)[2]
    THEN (IF Head(k)[2] < Head(l)[2] THEN -1 ELSE 1)
    ELSE compareKeys(Tail(k), Tail(l))

\* a.localeCompare(b, undefined, { numeric: true })
localeCompare(a, b) ==
    LET primary == compareKeys(primaryKey(a), primaryKey(b)) IN
    IF primary # 0 THEN primary
    ELSE compareKeys(tertiaryKey(a), tertiaryKey(b))

\* the comparator of every sort: folders first, then by name
compareItems(a, b) ==
    IF a.type # b.type THEN (IF a.type = "folder" THEN -1 ELSE 1)
    ELSE localeCompare(a.name, b.name)

\* Array.prototype.sort with compareItems (a stable sort)
RECURSIVE insertItem(_, _)
insertItem(item, sorted) ==
    IF sorted = << >> THEN <<item>>
    ELSE IF compareItems(item, Head(sorted)) < 0 THEN <<item>> \o sorted
    ELSE <<Head(sorted)>> \o insertItem(item, Tail(sorted))

RECURSIVE sortItems(_)
sortItems(items) ==
    IF items = << >> THEN << >>
    ELSE insertItem(items[Len(items)],
                    sortItems(SubSeq(items, 1, Len(items) - 1)))

\* sequences of at most MaxEntries elements of S
SeqUpTo(S) == UNION { [1..n -> S] : n \in 0..MaxEntries }

distinctNames(names) ==
    \A i, j \in 1..Len(names) : names[i] = names[j] => i = j

\* what readdir(.., { withFileTypes: true }) returns, with the outcome of
\* stat for each entry
Dirents ==
    { d \in SeqUpTo([name : Names, isDirectory : BOOLEAN,
                     statOk : BOOLEAN]) :
        distinctNames([i \in 1..Len(d) |-> d[i].name]) }

\* the loop of the /api/fs/list handler over the entries
RECURSIVE listItems(_)
listItems(dirents) ==
    IF dirents = << >> THEN << >>
    ELSE LET item == Head(dirents) IN
         IF startsWithDot(item.name) \/ ~item.statOk
         THEN listItems(Tail(dirents))
         ELSE <<[name |-> item.name,
                 type |-> IF item.isDirectory THEN "folder" ELSE "file"]>>
                 \o listItems(Tail(dirents))

\* what directoryHandle.entries() yields
HandleEntries ==
    { d \in SeqUpTo([name : Names, kind : {"directory", "file"}]) :
        distinctNames([i \in 1..Len(d) |-> d[i].name]) }

\* the loop of readWithFileSystemAPI and of readSubdirectory
RECURSIVE entryItems(_)
entryItems(entries) ==
    IF entries = << >> THEN << >>
    ELSE LET entry == Head(entries) IN
         IF startsWithDot(entry.name) THEN entryItems(Tail(entries))
         ELSE <<[name |-> entry.name,
                 type |-> IF entry.kind = "directory" THEN "folder"
                          ELSE "file"]>>
                 \o entryItems(Tail(entries))

\* input.files of the webkitdirectory input: the webkitRelativePath of each
\* file, as the names after the selected directory (a file of the directory
\* itself, or a file of one of its subdirectories)
RelativePaths == { <<n>> : n \in Names } \cup { <<n, <<"R">> >> : n \in Names }

FileLists == SeqUpTo(RelativePaths)

\* files.forEach of readWithWebkitDirectory: the immediate children in the
\* order of their first file
RECURSIVE webkitItems(_, _, _)
webkitItems(files, seenNames, all) ==
    IF files = << >> THEN << >>
    ELSE LET immediateChild == Head(files)[1]
             isDirectory ==
                 \/ Len(Head(files)) > 1
                 \/ \E i \in 1..Len(all) :
                       Len(all[i]) > 1 /\ all[i][1] = immediateChild
         IN IF immediateChild \in seenNames
            THEN webkitItems(Tail(files), seenNames, all)
            ELSE <<[name |-> immediateChild,
                    type |-> IF isDirectory THEN "folder" ELSE "file"]>>
                   \o webkitItems(Tail(files),
                                  seenNames \cup {immediateChild}, all)

\* the entries of the raw directory a call has read: name and type
RECURSIVE childrenOf(_)
childrenOf(files) ==
    IF files = << >> THEN {}
    ELSE {[name |-> Head(files)[1],
           type |-> IF \E i \in 1..Len(files) :
                         Len(files[i]) > 1 /\ files[i][1] = Head(files)[1]
                    THEN "folder" ELSE "file"]}
         \cup childrenOf(Tail(files))

\* GET /api/fs/list on a directory that readdir can read
ServerList(dirents) ==
    /\ source.op = "none"
    /\ source' = [op |-> "list",
                  raw |-> { [name |-> dirents[i].name,
                             type |-> IF dirents[i].isDirectory
                                      THEN "folder" ELSE "file"] :
                            i \in { k \in 1..Len(dirents) :
                                      dirents[k].statOk } },
                  items |-> sortItems(listItems(dirents))]
    /\ UNCHANGED <<browserVars, commands, zoomVars, wheel, reader>>

\* FileSystemReader.readWithFileSystemAPI on the chosen directory
ReadWithFileSystemAPI(entries) ==
    /\ source.op = "none"
    /\ source' = [op |-> "fileSystemAPI",
                  raw |-> { [name |-> entries[i].name,
                             type |-> IF entries[i].kind = "directory"
                                      THEN "folder" ELSE "file"] :
                            i \in 1..Len(entries) },
                  items |-> sortItems(entryItems(entries))]
    /\ UNCHANGED <<browserVars, commands, zoomVars, wheel, reader>>

\* FileSystemReader.readSubdirectory on a subdirectory handle
ReadSubdirectory(entries) ==
    /\ source.op = "none"
    /\ source' = [op |-> "subdirectory",
                  raw |-> { [name |-> entries[i].name,
                             type |-> IF entries[i].kind = "directory"
                                      THEN "folder" ELSE "file"] :
                            i \in 1..Len(entries) },
                  items |-> sortItems(entryItems(entries))]
    /\ UNCHANGED <<browserVars, commands, zoomVars, wheel, reader>>

\* FileSystemReader.readWithWebkitDirectory: onchange of the input
ReadWithWebkitDirectory(files) ==
    /\ source.op = "none"
    /\ source' = [op |-> "webkitDirectory",
                  raw |-> childrenOf(files),
                  items |-> sortItems(webkitItems(files, {}, files))]
    /\ UNCHANGED <<browserVars, commands, zoomVars, wheel, reader>>

\* requested paths, as sequences of pieces of text
RequestedPaths ==
    { <<"/", "Library", "/", "Mail">>, <<"/", "Library">>,
      <<"/", "System", "/">>, <<"/", "library", "/">>,
      <<"/", "Users", "/", "iCloud">>,
      <<"/", "Users", "/", ".photoslibrary">>,
      <<"/", "Users", "/", "AddressBook">>,
      <<"/", "Users", "/", "Mail">>, <<"/", "Users", "/", "Mail", "/">>,
      <<"/", "Users">> }

\* path.includes(text)
includes(path, text) ==
    \E i \in 1..(Len(path) - Len(text) + 1) :
       SubSeq(path, i, i + Len(text) - 1) = text

\* error.code of a failed readdir
ErrorCodes == {"EACCES", "EPERM", "ENOENT", "ENOTDIR", "EIO"}

getPermissionGuidance_pathOnly(error, path) ==
    IF error.code = "EACCES" \/ error.code = "EPERM"
    THEN IF \/ includes(path, <<"/", "Library", "/">>)
            \/ includes(path, <<"/", "System", "/">>)
            \/ includes(path, <<"iCloud">>)
            \/ includes(path, <<".photoslibrary">>)
            \/ includes(path, <<"AddressBook">>)
            \/ includes(path, <<"Mail", "/">>)
         THEN [message |-> "Permission denied - folder requires Full Disk Access",
               solution |-> "Grant Full Disk Access",
               type |-> "full_disk_access_required"]
         ELSE [message |-> "Permission denied - insufficient privileges",
               solution |-> "Check folder permissions",
               type |-> "permission_denied"]
    ELSE IF error.code = "ENOENT"
    THEN [message |-> "Directory not found",
          solution |-> "Verify the path exists",
          type |-> "not_found"]
    ELSE [message |-> error.message,
          solution |-> "Check system logs for more details",
          type |-> "unknown"]

getPermissionGuidance(error, path) ==
    IF error.code = "EACCES" \/ error.code = "EPERM"
    THEN IF /\ ~error.fullDiskAccess
            /\ \/ includes(path, <<"/", "Library", "/">>)
               \/ includes(path, <<"/", "System", "/">>)
               \/ includes(path, <<"iCloud">>)
               \/ includes(path, <<".photoslibrary">>)
               \/ includes(path, <<"AddressBook">>)
               \/ includes(path, <<"Mail", "/">>)
         THEN [message |-> "Permission denied - folder requires Full Disk Access",
               solution |-> "Grant Full Disk Access",
               type |-> "full_disk_access_required"]
         ELSE [message |-> "Permission denied - insufficient privileges",
               solution |-> "Check folder permissions",
               type |-> "permission_denied"]
    ELSE IF error.code = "ENOENT"
    THEN [message |-> "Directory not found",
          solution |-> "Verify the path exists",
          type |-> "not_found"]
    ELSE [message |-> error.message,
          solution |-> "Check system logs for more details",
          type |-> "unknown"]

handledGracefully_permissionOnly(error) ==
    error.code = "EACCES" \/ error.code = "EPERM"

\* the errors the handler answers with an empty listing
handledGracefully(error) ==
    error.code = "EACCES" \/ error.code = "EPERM" \/ error.code = "ENOENT"

\* the catch branch of the /api/fs/list handler: the status and the JSON body
errorResponse(error, requestedPath) ==
    LET guidance == getPermissionGuidance(error, requestedPath) IN
    IF handledGracefully(error)
    THEN [status |-> 200,
          body |-> [success |-> TRUE,
                    path |-> requestedPath,
                    items |-> << >>,
                    warning |-> guidance.message,
                    solution |-> guidance.solution,
                    permissionType |-> guidance.type,
                    hasFullDiskAccess |-> error.fullDiskAccess]]
    ELSE [status |-> 500,
          body |-> [success |-> FALSE,
                    error |-> error.message,
                    code |-> error.code,
                    path |-> requestedPath,
                    hasFullDiskAccess |-> error.fullDiskAccess]]

\* GET /api/fs/list on a directory that readdir fails to read
ServerListError(code, requestedPath, hasFullDiskAccess) ==
    /\ source.op = "none"
    /\ LET error == [code |-> code, message |-> <<code, "readdir failed">>,
                     fullDiskAccess |-> hasFullDiskAccess]
       IN source' = [op |-> "listError",
                     error |-> error,
                     requestedPath |-> requestedPath,
                     response |-> errorResponse(error, requestedPath)]
    /\ UNCHANGED <<browserVars, commands, zoomVars, wheel, reader>>

\* what fetch('/api/fs/list?path=...') comes to: no answer at all, the answer
\* to a directory that was read, or the answer to one that was not
FetchOutcomes ==
    { [kind |-> "failed"] }
    \cup { [kind |-> "response",
            response |-> [status |-> 200,
                          body |-> [success |-> TRUE,
                                    path |-> <<"/", "Users">>,
                                    items |-> sortItems(listItems(dirents))]]] :
           dirents \in Dirents }
    \cup { [kind |-> "response",
            response |-> errorResponse([code |-> code,
                                        message |-> <<code, "readdir failed">>,
                                        fullDiskAccess |-> hasFullDiskAccess],
                                       <<"/", "Library", "/", "Mail">>)] :
           code \in ErrorCodes, hasFullDiskAccess \in BOOLEAN }

\* response.ok
ok(response) == response.status >= 200 /\ response.status <= 299

\* ServerFileSystemReader.readDirectory: how the promise settles
ServerFileSystemReader_readDirectory(fetched) ==
    IF fetched.kind = "failed"
    THEN [kind |-> "rejected", items |-> << >>, advisory |-> FALSE]
    ELSE IF ~ok(fetched.response)
    THEN [kind |-> "rejected", items |-> << >>, advisory |-> FALSE]
    ELSE IF ~fetched.response.body.success
    THEN [kind |-> "rejected", items |-> << >>, advisory |-> FALSE]
    ELSE [kind |-> "resolved",
          items |-> fetched.response.body.items,
          advisory |-> "warning" \in DOMAIN fetched.response.body]

\* what readWithFileSystemAPI or readWithWebkitDirectory comes to: a listing,
\* or a rejection (the picker was dismissed, access was refused, input.onerror)
InnerOutcomes ==
    { [kind |-> "resolved", items |-> sortItems(entryItems(entries))] :
         entries \in HandleEntries }
    \cup { [kind |-> "rejected", error |-> error] :
             error \in {"AbortError", "NotAllowedError",
                        "Failed to read directory"} }

\* FileSystemReader.readDirectory: how the promise settles
FileSystemReader_readDirectory(inner) ==
    IF inner.kind = "rejected"
    THEN [kind |-> "resolved", items |-> << >>, advisory |-> FALSE]
    ELSE [kind |-> "resolved", items |-> inner.items, advisory |-> FALSE]

\* a call of ServerFileSystemReader.readDirectory
ReadDirectoryFromServer(fetched) ==
    /\ source.op = "none"
    /\ source' = [op |-> "ServerFileSystemReader.readDirectory",
                  fetched |-> fetched,
                  outcome |-> ServerFileSystemReader_readDirectory(fetched)]
    /\ UNCHANGED <<browserVars, commands, zoomVars, wheel, reader>>

\* a call of FileSystemReader.readDirectory
ReadDirectoryFromBrowser(inner) ==
    /\ source.op = "none"
    /\ source' = [op |-> "FileSystemReader.readDirectory",
                  inner |-> inner,
                  outcome |-> FileSystemReader_readDirectory(inner)]
    /\ UNCHANGED <<browserVars, commands, zoomVars, wheel, reader>>

----------------------------------------------------------------------------
(* ServerFileSystemReader: the current path.  A path is the sequence of its *)
(* characters.                                                              *)

\* the longest path that is explored
MaxPathLen == 8

\* data.path of a listing: what path.resolve returns on the server, for a
\* POSIX root, a directory and a nested directory, and for the root of a
\* Windows drive and a directory on it.  Only a root ends in a separator.
ResolvedPaths ==
    { <<"/">>, <<"/", "a">>, <<"/", "a", "/", "b">>,
      <<"C", ":", "\\">>, <<"C", ":", "\\", "a">> }

\* single-segment folder names
FolderNames == { <<"b">>, <<"c", "d">>, <<"e">> }

IsSeparator(ch) == ch = "/" \/ ch = "\\"

\* basePath.replace(/[/\\]+$/, '')
RECURSIVE cleanBase(_)
cleanBase(basePath) ==
    IF basePath # << >> /\ IsSeparator(basePath[Len(basePath)])
    THEN cleanBase(SubSeq(basePath, 1, Len(basePath) - 1))
    ELSE basePath

joinPath(basePath, segment) ==
    IF basePath = << >> THEN segment
    ELSE LET separator ==
                 IF InSeq("\\", basePath) THEN "\\" ELSE "/"
         IN cleanBase(basePath) \o <<separator>> \o segment

\* String.prototype.split('/')
RECURSIVE split(_)
split(str) ==
    IF ~InSeq("/", str) THEN <<str>>
    ELSE LET i == CHOOSE k \in 1..Len(str) :
                    /\ str[k] = "/"
                    /\ \A j \in 1..(k - 1) : str[j] # "/"
         IN <<SubSeq(str, 1, i - 1)>>
              \o split(SubSeq(str, i + 1, Len(str)))

\* Array.prototype.join('/')
RECURSIVE join(_)
join(pathParts) ==
    IF pathParts = << >> THEN << >>
    ELSE IF Len(pathParts) = 1 THEN pathParts[1]
    ELSE pathParts[1] \o <<"/">> \o join(Tail(pathParts))

\* the currentPath that navigateBack leaves
parentPath(path) ==
    LET pathParts == split(path)
        popped == SubSeq(pathParts, 1, Len(pathParts) - 1)
    IN IF join(popped) = << >> THEN <<"/">> ELSE join(popped)

getCurrentPath(path) == IF path = << >> THEN <<"/">> ELSE path

\* readDirectory has succeeded: currentPath = data.path
SetCurrentPath(path) ==
    /\ Count
    /\ reader' = [currentPath |-> path, entered |-> << >>, op |-> "set"]
    /\ UNCHANGED <<browserVars, zoomVars, wheel, source>>

\* resetToHome has failed: currentPath = ''
ResetFailed ==
    /\ Count
    /\ reader' = [currentPath |-> << >>, entered |-> << >>, op |-> "set"]
    /\ UNCHANGED <<browserVars, zoomVars, wheel, source>>

ServerFileSystemReader_navigateInto(folderName) ==
    /\ Count
    /\ Len(reader.currentPath) + Len(folderName) < MaxPathLen
    /\ reader' = [currentPath |-> joinPath(reader.currentPath, folderName),
                  entered |-> getCurrentPath(reader.currentPath),
                  op |-> "navigateInto"]
    /\ UNCHANGED <<browserVars, zoomVars, wheel, source>>

\* op "roundTrip": this navigateBack follows a navigateInto directly
ServerFileSystemReader_navigateBack ==
    /\ Count
    /\ reader' = [currentPath |-> parentPath(reader.currentPath),
                  entered |-> IF reader.op = "navigateInto"
                              THEN reader.entered ELSE << >>,
                  op |-> IF reader.op = "navigateInto"
                         THEN "roundTrip" ELSE "navigateBack"]
    /\ UNCHANGED <<browserVars, zoomVars, wheel, source>>

NextPath ==
    \/ \E path \in ResolvedPaths : SetCurrentPath(path)
    \/ ResetFailed
    \/ \E folderName \in FolderNames :
          ServerFileSystemReader_navigateInto(folderName)
    \/ ServerFileSystemReader_navigateBack

SpecPath == Init /\ [][NextPath]_vars

NextSource ==
    \/ \E fetched \in FetchOutcomes : ReadDirectoryFromServer(fetched)
    \/ \E inner \in InnerOutcomes : ReadDirectoryFromBrowser(inner)
    \/ \E code \in ErrorCodes, requestedPath \in RequestedPaths,
         hasFullDiskAccess \in BOOLEAN :
          ServerListError(code, requestedPath, hasFullDiskAccess)
    \/ \E dirents \in Dirents : ServerList(dirents)
    \/ \E entries \in HandleEntries : ReadWithFileSystemAPI(entries)
    \/ \E entries \in HandleEntries : ReadSubdirectory(entries)
    \/ \E files \in FileLists : ReadWithWebkitDirectory(files)

SpecSource == Init /\ [][NextSource]_vars

----------------------------------------------------------------------------
(* The browser *)

\* the largest listing: the fallback listing the browser starts with
MaxCards == Len(createFallbackData)

\* the cards a tap or click is aimed at: the second and the last index a
\* listing can have (an index past the current listing hits no card)
HitIndices == {1, MaxCards - 1}

Next ==
    \/ Tick
    \/ \E direction \in {-1, 1} : Advance(direction)
    \/ \E targetIndex \in HitIndices : CenterOn(targetIndex)
    \/ TouchStart
    \/ \E scrollDelta \in DragDeltas, timeDelta \in TimeDeltas :
          TouchMove(scrollDelta, timeDelta)
    \/ \E quick \in BOOLEAN, hit \in {-1} \cup HitIndices : TouchEnd(quick, hit)
    \/ \E cardIndex \in 0..MaxCards : Activate(cardIndex)
    \/ NavigateBack
    \/ TransitionFrame
    \/ TransitionResolve
    \/ \E files \in ReadDirectoryResults : LoadRealFileSystem(files)

Spec == Init /\ [][Next]_vars

\* the wheel, with the frames of the tweens it starts and a click in between
NextWheel ==
    \/ \E ctrlKey \in BOOLEAN, deltaX \in WheelDeltaXs,
         deltaY \in WheelDeltas \cup {0}, gap \in WheelGaps :
          Wheel(ctrlKey, deltaX, deltaY, gap)
    \/ Tick
    \/ \E targetIndex \in HitIndices : CenterOn(targetIndex)

SpecWheel == Init /\ [][NextWheel]_vars

----------------------------------------------------------------------------
(* A drill-down whose card creation throws.  navigateToFolder has pushed    *)
(* the listing by then; the exception leaves onCardClick as a rejected      *)
(* promise and nothing after the push runs.                                 *)

ActivateFails(cardIndex) ==
    /\ Count
    /\ ~onCardClickBlocked
    /\ cardIndex + 1 \in DOMAIN currentDirectory
    /\ currentDirectory[cardIndex + 1].name # ".."
    /\ currentDirectory[cardIndex + 1].type = "folder"
    /\ navigationStack' = Append(navigationStack, savedDirectory)
    /\ hist' = Append(hist, [L |-> currentDirectory,
                             stack |-> navigationStack])
    /\ note' = "failed"
    /\ UNCHANGED <<currentDirectory, cards, scrollPosition, isAnimating,
                   ih_isAnimating, activeAnimations, globalTimeline,
                   currentTransition, touch>>
    /\ UNCHANGED elsewhere

NextFault ==
    \/ Next
    \/ \E cardIndex \in 0..MaxCards : ActivateFails(cardIndex)

SpecFault == Init /\ [][NextFault]_vars

\* The ticker renders a frame on every display refresh for as long as a
\* tween is alive.
SpecLive == Init /\ [][Next]_vars /\ WF_vars(Tick)

----------------------------------------------------------------------------
(* Properties *)

TypeOK ==
    /\ scrollPosition \in Int
    /\ isAnimating \in BOOLEAN
    /\ ih_isAnimating \in BOOLEAN
    /\ commands \in 0..MaxCommands
    /\ Len(cards) = Len(currentDirectory)
    /\ note \in {"idle", "handback", "rejected", "back", "failed", "blocked",
                "noop", "accepted", "zoom", "debounced", "wheel"}

\* a step that pops the navigation stack
BackStep == Len(navigationStack') < Len(navigationStack)

\* C1: at most one scroll-position tween is in flight at any time: no state
\* has a tween of FileBrowser3D and a tween of InputHandlers both writing
\* scrollPosition.
C1_OneScrollTween == Len(globalTimeline) <= 1

\* C2: in every reachable state scrollPosition lies in [0, entryCount - 1],
\* entryCount being the number of cards of the live listing.
C2_ScrollInRange ==
    /\ 0 <= scrollPosition
    /\ scrollPosition <= (Len(cards) - 1) * UNIT

\* C3: round trip: a back-navigation restores exactly the listing L that was
\* live when the matching drill-down was activated, leaves the navigation
\* stack as it was before that drill-down, and leaves scrollPosition 0.
C3_RoundTrip ==
    [][BackStep =>
         /\ hist # << >>
         /\ currentDirectory' = hist[Len(hist)].L
         /\ navigationStack' = hist[Len(hist)].stack
         /\ scrollPosition' = 0]_vars

\* C3 witness: a drill-down at the root has resolved and the back-navigation
\* has restored the root listing
C3_Witness ==
    /\ note = "back"
    /\ hist = << >>
    /\ currentDirectory = createFallbackData
    /\ navigationStack = << >>
    /\ scrollPosition = 0

\* C4: ordering of a drill-down: the activation pushes the live listing and
\* leaves the live listing and cards alone; they stay the old ones as long
\* as the transition is in flight; the step that ends the transition installs
\* the child listing (first entry "..") and its cards.
C4_DrillDownOrdering ==
    [][/\ (currentTransition = None /\ currentTransition' # None) =>
             /\ navigationStack' = Append(navigationStack, currentDirectory)
             /\ UNCHANGED <<currentDirectory, Objects(cards)>>
       /\ (currentTransition # None /\ currentTransition' # None) =>
             UNCHANGED <<currentDirectory, Objects(cards)>>
       /\ (currentTransition # None /\ currentTransition' = None) =>
             /\ currentDirectory' = currentTransition.newContents
             /\ cards' = currentTransition.newCards
             /\ currentDirectory'[1].name = ".."]_vars

\* C5: once a drill-down transition has resolved, scrollPosition is 0 and
\* stays 0 until the next command issued after the hand-back.
C5_ZeroAfterHandBack == note = "handback" => scrollPosition = 0

\* C6: re-entrancy: while a drill-down transition is in flight, an
\* activate(index) or a back-navigation changes neither the navigation
\* stack, the live listing, the cards, scrollPosition nor the transition in
\* flight.
C6_Reentrancy ==
    [][(/\ AnimationManager_isAnimating
        /\ \/ \E cardIndex \in 0..MaxCards : Activate(cardIndex)
           \/ NavigateBack)
       => UNCHANGED <<navigationStack, currentDirectory, cards,
                      scrollPosition, currentTransition>>]_vars

\* C6 witness: a call was rejected while the transition was in flight
C6_Witness == note = "rejected" /\ AnimationManager_isAnimating

\* C7: a back-navigation pops exactly one listing, installs exactly that
\* listing, and leaves scrollPosition 0 and no animating flag set.
C7_BackResetsNavigationState ==
    [][BackStep =>
         /\ navigationStack' =
              SubSeq(navigationStack, 1, Len(navigationStack) - 1)
         /\ currentDirectory' = navigationStack[Len(navigationStack)]
         /\ scrollPosition' = 0
         /\ ~isAnimating'
         /\ ~ih_isAnimating']_vars

\* C8: a drill-down that fails before its transition resolves leaves the
\* listing, the cards and the navigation stack as they were (no partial
\* navigation).
C8_FailedDrillDownLeavesNoTrace ==
    [][note' = "failed" =>
         UNCHANGED <<currentDirectory, cards, navigationStack,
                     currentTransition>>]_vars

\* C9: whenever no drill-down transition is in flight and the navigation
\* stack is non-empty, the first entry of the live listing is "..".
C9_BackEntryFirst ==
    (currentTransition = None /\ navigationStack # << >>)
        => currentDirectory[1].name = ".."

\* C10: the navigation stack changes only by a push of the live listing at
\* the start of a drill-down and by a pop at a back-navigation; every other
\* step leaves every stacked listing as it is.
C10_StackFrozen ==
    [][\/ navigationStack' = navigationStack
       \/ /\ currentTransition = None /\ currentTransition' # None
          /\ navigationStack' = Append(navigationStack, currentDirectory)
       \/ /\ note' = "back"
          /\ navigationStack # << >>
          /\ navigationStack' =
               SubSeq(navigationStack, 1, Len(navigationStack) - 1)]_vars

\* C10 witness: a listing is stacked, the live listing has been replaced by
\* the child listing, and the view has scrolled away from the first card
C10_Witness ==
    /\ navigationStack = <<createFallbackData>>
    /\ currentDirectory # createFallbackData
    /\ currentTransition = None
    /\ scrollPosition > 0
    /\ commands >= 2

C12_SecondAdvanceCancelsFirst ==
    [][\A direction \in {-1, 1} :
         (/\ Advance(direction)
          /\ isAnimating
          /\ \E i \in 1..Len(globalTimeline) : globalTimeline[i].id = "fb"
          /\ Clamp(scrollPosition + direction * UNIT) # scrollPosition)
         => /\ Len(globalTimeline') = 1
            /\ globalTimeline'[1].to
                  = Clamp(scrollPosition + direction * UNIT)]_vars

\* the tween of an advance towards target is in flight, alone
AdvanceInFlight(target) ==
    /\ isAnimating /\ ~ih_isAnimating
    /\ Len(globalTimeline) = 1
    /\ globalTimeline[1].id = "fb"
    /\ globalTimeline[1].to = target

C16_NoHiddenEntries ==
    source.op \in {"list", "fileSystemAPI", "subdirectory", "webkitDirectory"}
        => \A i \in 1..Len(source.items) :
              ~startsWithDot(source.items[i].name)

\* a read path has produced a listing
Listed ==
    source.op \in {"list", "fileSystemAPI", "subdirectory", "webkitDirectory"}

\* folders before files and, within each, names in non-decreasing
\* case-insensitive numeric-aware order
Ordered(items) ==
    \A i, j \in 1..Len(items) :
       i < j =>
          /\ ~(items[i].type = "file" /\ items[j].type = "folder")
          /\ items[i].type = items[j].type =>
                compareKeys(primaryKey(items[i].name),
                            primaryKey(items[j].name)) <= 0

\* C17: every listing the Directory Source produces has every folder before
\* every file and, within the folders and within the files, the names in
\* non-decreasing case-insensitive numeric-aware order; and it is a
\* permutation of the raw entries that are not hidden.
C17_OrderedPermutation ==
    Listed =>
       /\ Ordered(source.items)
       /\ \A i, j \in 1..Len(source.items) :
             source.items[i] = source.items[j] => i = j
       /\ { source.items[i] : i \in 1..Len(source.items) }
             = { e \in source.raw : ~startsWithDot(e.name) }

\* C18: the listing endpoint answers a read that fails with EACCES, EPERM or
\* ENOENT with status 200, success = true, items = [] and both warning and
\* solution; it answers any other failure with status 500, success = false
\* and error, code and path; success = true never comes with status 500.
C18_ErrorsNormalized ==
    source.op = "listError" =>
       LET response == source.response
           body == response.body
       IN /\ source.error.code \in {"EACCES", "EPERM", "ENOENT"} =>
                /\ response.status = 200
                /\ body.success = TRUE
                /\ {"items", "warning", "solution"} \subseteq DOMAIN body
                /\ body.items = << >>
                /\ body.warning # "" /\ body.solution # ""
          /\ source.error.code \notin {"EACCES", "EPERM", "ENOENT"} =>
                /\ response.status = 500
                /\ body.success = FALSE
                /\ {"error", "code", "path"} \subseteq DOMAIN body
                /\ body.code = source.error.code
                /\ body.path = source.requestedPath
          /\ ~(body.success /\ response.status = 500)

\* C18 witness: a read of a missing directory was answered with an empty
\* listing and a warning
C18_Witness ==
    /\ source.op = "listError"
    /\ source.error.code = "ENOENT"
    /\ source.response.status = 200
    /\ source.response.body.permissionType = "not_found"

\* the text a path must contain to count as sensitive
SensitiveTexts ==
    { <<"/", "Library", "/">>, <<"/", "System", "/">>, <<"iCloud">>,
      <<".photoslibrary">>, <<"AddressBook">>, <<"Mail", "/">> }

Sensitive(path) == \E text \in SensitiveTexts : includes(path, text)

PermissionDenied ==
    source.op = "listError" /\ source.error.code \in {"EACCES", "EPERM"}

\* C19 as stated: for every permission-denied failure the hint is the
\* elevated-grant kind exactly when the requested path contains a sensitive
\* text, whatever else holds, and the generic kind otherwise.
C19_ByPathAlone ==
    PermissionDenied =>
       LET type == source.response.body.permissionType IN
       /\ type \in {"full_disk_access_required", "permission_denied"}
       /\ type = "full_disk_access_required" <=>
             Sensitive(source.requestedPath)

\* C19 amended: for every permission-denied failure the hint is the
\* elevated-grant kind exactly when the server lacks Full Disk Access and
\* the requested path contains a sensitive text, and the generic kind
\* otherwise.
C19_ByPathAndAccess ==
    PermissionDenied =>
       LET type == source.response.body.permissionType IN
       /\ type \in {"full_disk_access_required", "permission_denied"}
       /\ type = "full_disk_access_required" <=>
             (~source.error.fullDiskAccess
                 /\ Sensitive(source.requestedPath))

\* C19 witness: without Full Disk Access, a denied read of /Library/Mail
\* got the elevated-grant hint
C19_Witness ==
    /\ PermissionDenied
    /\ ~source.error.fullDiskAccess
    /\ source.requestedPath = <<"/", "Library", "/", "Mail">>
    /\ source.response.body.permissionType = "full_disk_access_required"

\* C20: for both providers readDirectory never throws or rejects: every
\* failure settles as a resolved, empty or partial, listing.
C20_ReadDirectoryNeverRejects ==
    source.op \in {"ServerFileSystemReader.readDirectory",
                   "FileSystemReader.readDirectory"} =>
       source.outcome.kind = "resolved"

\* the indices a card can have
CardIndices == 0..(MaxCards - 1)

ratioPosition(i, s) ==
    [x |-> ((i * UNIT - s) * CARD_SPACING * DIAGONAL_X_RATIO) \div 1000,
     y |-> ((i * UNIT - s) * CARD_SPACING * DIAGONAL_Y_RATIO) \div 1000
             + elevation(i, s),
     z |-> ((i * UNIT - s) * CARD_SPACING * DIAGONAL_Z_RATIO) \div 1000]

\* the position with the y and z ratios negated
mirroredPosition(i, s) ==
    [x |-> ((i * UNIT - s) * CARD_SPACING * DIAGONAL_X_RATIO) \div 1000,
     y |-> ((i * UNIT - s) * CARD_SPACING * (-DIAGONAL_Y_RATIO)) \div 1000
             + elevation(i, s),
     z |-> ((i * UNIT - s) * CARD_SPACING * (-DIAGONAL_Z_RATIO)) \div 1000]

C23_DragIsImmediate ==
    /\ [][\A scrollDelta \in DragDeltas, timeDelta \in TimeDeltas :
           (TouchMove(scrollDelta, timeDelta)
              /\ (touch.hasMoved \/ scrollDelta # 0))
           => /\ scrollPosition'
                   = Clamp(touch.startScrollPosition + scrollDelta)
              /\ UNCHANGED <<isAnimating, ih_isAnimating>>]_vars
    /\ [][(/\ touch.isDragging /\ touch.hasMoved
           /\ commands' = commands
           /\ currentTransition' = currentTransition)
           => scrollPosition' = scrollPosition]_vars

\* a touchend that ends a drag which moved past the threshold
ReleaseStep ==
    /\ touch.hasMoved
    /\ \E quick \in BOOLEAN, hit \in {-1} \cup HitIndices : TouchEnd(quick, hit)

\* the tween of InputHandlers that is in flight, if there is one
InputTweens(tl) == { k \in 1..Len(tl) : tl[k].id = "ih" }

\* C24: the release of a drag that moved starts exactly one animation, the
\* newest tween, and sets the handlers' animating flag; its target is a card
\* index n in [0, count-1], the nearest to clamp(scrollPosition + v * 300 ms)
\* with halves going up.  The frame in which a tween of the handlers
\* completes leaves scrollPosition on the tween's target and clears the
\* handlers' flag, and leaves the browser idle if no other tween is live.
C24_ReleaseSnapsToCard ==
    /\ [][ReleaseStep =>
           LET c == Clamp(scrollPosition + touch.velocity)
               tl == globalTimeline'
           IN /\ Cardinality(InputTweens(tl)) = 1
              /\ Len(tl) = Len(globalTimeline)
                             - Cardinality(InputTweens(globalTimeline)) + 1
              /\ tl[Len(tl)].id = "ih"
              /\ ih_isAnimating'
              /\ \E n \in 0..(Len(cards) - 1) :
                    /\ tl[Len(tl)].to = n * UNIT
                    /\ -UNIT < 2 * (n * UNIT - c)
                    /\ 2 * (n * UNIT - c) <= UNIT]_vars
    /\ [][\A k \in InputTweens(globalTimeline) :
           (commands' = commands /\ InputTweens(globalTimeline') = {})
           => /\ scrollPosition' = globalTimeline[k].to
              /\ ~ih_isAnimating'
              /\ Len(globalTimeline) = 1 =>
                    ~isAnimating' /\ globalTimeline' = << >>]_vars

\* C24 witness: a drag from the first card was released between two cards,
\* its momentum animation has completed, and the row rests on a card
C24_Witness ==
    /\ commands = 3
    /\ ~touch.isDragging /\ touch.hasMoved
    /\ touch.startScrollPosition = 0
    /\ globalTimeline = << >> /\ ~isAnimating /\ ~ih_isAnimating
    /\ scrollPosition >= UNIT /\ scrollPosition % UNIT = 0

\* C25: centerOn(index) leaves scrollPosition, both animating flags and every
\* tween in flight unchanged whenever an animating flag is set and whenever
\* index equals scrollPosition; otherwise it sets an animating flag and
\* leaves one tween in flight, towards index.
C25_CenterOnLikeAdvance ==
    [][\A targetIndex \in HitIndices :
         CenterOn(targetIndex) =>
            IF \/ isAnimating \/ ih_isAnimating
               \/ targetIndex * UNIT = scrollPosition
            THEN UNCHANGED <<scrollPosition, isAnimating, ih_isAnimating,
                             globalTimeline>>
            ELSE /\ isAnimating' \/ ih_isAnimating'
                 /\ Len(globalTimeline') = 1
                 /\ globalTimeline'[1].to = targetIndex * UNIT]_vars

----------------------------------------------------------------------------
\* the advance tweens of tl that have not rendered a frame yet
PendingAdvances(tl) ==
    { tl[k] : k \in { j \in 1..Len(tl) : tl[j].id = "fb" /\ ~tl[j].init } }

\* C26: a wheel event with the zoom modifier changes the zoom and starts no
\* advance.  One without it changes no zoom and starts at most one advance, of
\* one card, in the direction given by the sign of the delta of the axis with
\* the larger absolute delta (negated: a positive delta goes to the lower
\* index), and none if that delta is 0.  One that arrives less than 50 ms after
\* the last accepted wheel event starts no advance and is not itself accepted.
C26_WheelAdvance ==
    [][\A ctrlKey \in BOOLEAN, deltaX \in WheelDeltaXs,
          deltaY \in WheelDeltas \cup {0}, gap \in WheelGaps :
          Wheel(ctrlKey, deltaX, deltaY, gap) =>
            LET tl == globalTimeline'
                dominant == IF Abs(deltaX) > Abs(deltaY)
                            THEN deltaX ELSE deltaY
                target == scrollPosition - Sign(dominant) * UNIT
                noAdvance ==
                    /\ PendingAdvances(tl) \subseteq
                           PendingAdvances(globalTimeline)
                    /\ scrollPosition' = scrollPosition
                oneAdvance ==
                    /\ Len(tl) >= 1
                    /\ tl[Len(tl)] =
                           Tween("fb", FALSE, scrollPosition, target)
                    /\ PendingAdvances(tl) = {tl[Len(tl)]}
                    /\ target \in 0..((Len(cards) - 1) * UNIT)
                    /\ scrollPosition' = scrollPosition
            IN /\ ctrlKey =>
                    /\ noAdvance
                    /\ UNCHANGED <<globalTimeline, wheel.lastInputTime>>
               /\ ~ctrlKey =>
                    /\ UNCHANGED <<currentZoom, zoomTweens>>
                    /\ noAdvance \/ oneAdvance
                    /\ dominant = 0 => noAdvance
               /\ (~ctrlKey
                     /\ wheel.now + gap - wheel.lastInputTime
                            < INPUT_DEBOUNCE) =>
                    /\ noAdvance
                    /\ UNCHANGED <<globalTimeline, wheel.lastInputTime>>]_vars

\* C26 witness: a wheel event was accepted at the first card without starting
\* an advance (it pointed below index 0, or its delta was 0), and the next
\* one came 10 ms later and was debounced
C26_Witness ==
    /\ note = "debounced"
    /\ wheel.lastInputTime > 0
    /\ wheel.now - wheel.lastInputTime < INPUT_DEBOUNCE
    /\ globalTimeline = << >> /\ ~isAnimating
    /\ scrollPosition = 0

----------------------------------------------------------------------------
\* a scroll command, or a frame of a scroll tween started after the
\* transition in flight
ScrollStep ==
    \/ \E direction \in {-1, 1} : Advance(direction)
    \/ \E targetIndex \in HitIndices : CenterOn(targetIndex)
    \/ \E quick \in BOOLEAN, hit \in {-1} \cup HitIndices : TouchEnd(quick, hit)
    \/ Tick /\ \E k \in 1..Len(globalTimeline) : ~globalTimeline[k].early

\* C27: while a drill-down transition is in flight and the cards it drops
\* are still the browser's cards, an advance, a centerOn, a drag release
\* and the frames of the scroll tweens they start leave the position and
\* the scale of every card as the transition put them.
C27_TransitionOwnsTransforms ==
    [][(currentTransition # None /\ currentTransition.currentLive
          /\ ScrollStep) => cards' = cards]_vars

----------------------------------------------------------------------------
\* the live tweens with the given id
LiveTweens(id) == { k \in 1..Len(globalTimeline) : globalTimeline[k].id = id }

\* C28: FileBrowser3D.isAnimating is set exactly when a tween that
\* navigateCards started is live, and InputHandlers.isAnimating exactly when
\* activeAnimations holds a live tween.
C28_FlagsAccurate ==
    /\ isAnimating <=> LiveTweens("fb") # {}
    /\ ih_isAnimating <=>
          \E k \in LiveTweens("ih") : InSeq("ih", activeAnimations)

\* C28 witness: a touch came while an advance was running and has cancelled
\* the animations of the handlers; the tween of the advance is still live
\* and has rendered, and only the browser's flag is set
C28_Witness ==
    /\ touch.isDragging /\ ~touch.hasMoved
    /\ isAnimating /\ ~ih_isAnimating
    /\ activeAnimations = << >>
    /\ \E k \in LiveTweens("fb") : globalTimeline[k].init
    /\ LiveTweens("ih") = {}

----------------------------------------------------------------------------
\* C29: when no scroll tween and no drill-down transition is in flight, every
\* card has the position and the scale of the card layout for its index and
\* the current scrollPosition; with scrollPosition 0 that is scale 1.15 for
\* card 0 and scale 1.0 for the others.
C29_IdleCardsAtLayout ==
    (globalTimeline = << >> /\ currentTransition = None) =>
        \A k \in 1..Len(cards) :
            /\ cards[k].position = centeredPosition(k - 1, scrollPosition)
            /\ cards[k].scale = scale(k - 1, scrollPosition)

----------------------------------------------------------------------------
\* C30: navigateInto(name) followed directly by navigateBack() leaves
\* getCurrentPath() as it was before the navigateInto.
C30_PathRoundTrip ==
    reader.op = "roundTrip" =>
        getCurrentPath(reader.currentPath) = reader.entered

====
